---- MODULE Spec2Model ----
(***************************************************************************)
(* A model of the adblockgoparser rule engine: ParseRule and ruleToRegexp  *)
(* (src/rules.go), the trie matcher (src/unnamed/part_000) and the RuleSet *)
(* policy.  Go strings are modelled as sequences of one-character strings, *)
(* so that every string operation of the source is computed, not assumed.  *)
(***************************************************************************)
EXTENDS Integers, Sequences, FiniteSets, TLC

(***************************************************************************)
(* Go string primitives (package strings, slicing)                         *)
(***************************************************************************)

UpperLetters == <<"A","B","C","D","E","F","G","H","I","J","K","L","M",
                  "N","O","P","Q","R","S","T","U","V","W","X","Y","Z">>

LowerLetters == <<"a","b","c","d","e","f","g","h","i","j","k","l","m",
                  "n","o","p","q","r","s","t","u","v","w","x","y","z">>

Digits == {"0","1","2","3","4","5","6","7","8","9"}

Range(s) == {s[i] : i \in DOMAIN s}

\* strings.ToLower on one character
LowerChar(c) ==
    IF \E i \in DOMAIN UpperLetters : UpperLetters[i] = c
    THEN LowerLetters[CHOOSE i \in DOMAIN UpperLetters : UpperLetters[i] = c]
    ELSE c

\* strings.ToLower
ToLower(s) == [i \in DOMAIN s |-> LowerChar(s[i])]

\* s[from:to] with Go's 0-based, end-exclusive indices (0 <= from <= to <= len)
Slice(s, from, to) == SubSeq(s, from + 1, to)

\* strings.HasPrefix
HasPrefix(s, p) == Len(p) <= Len(s) /\ SubSeq(s, 1, Len(p)) = p

\* strings.HasSuffix
HasSuffix(s, p) == Len(p) <= Len(s) /\ SubSeq(s, Len(s) - Len(p) + 1, Len(s)) = p

\* strings.Index: the 1-based position of the first occurrence of p, 0 if none
Index(s, p) ==
    LET hits == {i \in 1..(Len(s) - Len(p) + 1) : SubSeq(s, i, i + Len(p) - 1) = p}
    IN IF hits = {} THEN 0 ELSE CHOOSE i \in hits : \A j \in hits : i <= j

\* strings.Contains
Contains(s, p) == \E i \in 1..(Len(s) - Len(p) + 1) : SubSeq(s, i, i + Len(p) - 1) = p

\* strings.TrimPrefix
TrimPrefix(s, p) == IF HasPrefix(s, p) THEN SubSeq(s, Len(p) + 1, Len(s)) ELSE s

\* strings.TrimSpace (the model's only white space is the blank)
TrimSpace(s) ==
    LET keep == {i \in DOMAIN s : s[i] # " "}
    IN IF keep = {} THEN <<>>
       ELSE SubSeq(s, CHOOSE i \in keep : \A j \in keep : i <= j,
                      CHOOSE i \in keep : \A j \in keep : j <= i)

\* strings.ReplaceAll for a non-empty old: leftmost, non-overlapping
RECURSIVE ReplaceAll(_, _, _)
ReplaceAll(s, old, new) ==
    IF Len(s) < Len(old) THEN s
    ELSE IF SubSeq(s, 1, Len(old)) = old
         THEN new \o ReplaceAll(SubSeq(s, Len(old) + 1, Len(s)), old, new)
         ELSE <<s[1]>> \o ReplaceAll(Tail(s), old, new)

\* strings.Split for a one-character separator: a sequence of strings
RECURSIVE Split(_, _)
Split(s, sep) ==
    LET i == Index(s, <<sep>>)
    IN IF i = 0 THEN <<s>>
       ELSE <<SubSeq(s, 1, i - 1)>> \o Split(SubSeq(s, i + 1, Len(s)), sep)

\* strings.SplitN(s, sep, 2) when s contains sep: the parts around the first sep
SplitN2(s, sep) ==
    LET i == Index(s, <<sep>>)
    IN <<SubSeq(s, 1, i - 1), SubSeq(s, i + 1, Len(s))>>

\* regexp.QuoteMeta: a backslash before each of \.+*?()|[]{}^$
MetaChars == {"\\", ".", "+", "*", "?", "(", ")", "|", "[", "]", "{", "}", "^", "$"}

RECURSIVE QuoteMeta(_)
QuoteMeta(s) ==
    IF s = <<>> THEN <<>>
    ELSE (IF s[1] \in MetaChars THEN <<"\\", s[1]>> ELSE <<s[1]>>) \o QuoteMeta(Tail(s))

(***************************************************************************)
(* Pattern compilation: ruleToRegexp (src/rules.go)                        *)
(***************************************************************************)

\* the text that replaces the separator ^ : (?:[^\w\d_\\\-.%]|$)
SepPattern == <<"(", "?", ":", "[", "^", "\\", "w", "\\", "d", "_", "\\", "\\",
                "\\", "-", ".", "%", "]", "|", "$", ")">>

\* the groups that follow ^ in the text replacing a leading || :
\* (?:[^:/?#]+:)?(?://(?:[^/?#]*\.)?)?
DomainGroups == <<"(", "?", ":", "[", "^", ":", "/", "?", "#", "]", "+", ":", ")", "?",
                  "(", "?", ":", "/", "/", "(", "?", ":", "[", "^", "/", "?", "#", "]",
                  "*", "\\", ".", ")", "?", ")", "?">>

CaseFlag == <<"(", "?", "i", ")">>

\* the option names ParseRule accepts
OptImage == <<"i","m","a","g","e">>
OptScript == <<"s","c","r","i","p","t">>
OptStylesheet == <<"s","t","y","l","e","s","h","e","e","t">>
OptFont == <<"f","o","n","t">>
OptThirdParty == <<"t","h","i","r","d","-","p","a","r","t","y">>
OptXHR == <<"x","m","l","h","t","t","p","r","e","q","u","e","s","t">>
OptMatchCase == <<"m","a","t","c","h","-","c","a","s","e">>

supportedOptions ==
    {OptImage, OptScript, OptStylesheet, OptFont, OptThirdParty, OptXHR, OptMatchCase}

\* regexp.MustCompile(`(\|)[^$]`).ReplaceAllString(rule, `\|`): each | together
\* with the character after it (unless that is $) becomes \| , left to right
RECURSIVE EscapePipes(_)
EscapePipes(s) ==
    IF s = <<>> THEN <<>>
    ELSE IF s[1] = "|" /\ Len(s) >= 2 /\ s[2] # "$"
         THEN <<"\\", "|">> \o EscapePipes(SubSeq(s, 3, Len(s)))
         ELSE <<s[1]>> \o EscapePipes(Tail(s))

\* the steps of ruleToRegexp from QuoteMeta to the trailing-| replacement
QuotedRule(text) ==
    LET quoted == QuoteMeta(text)
        r1 == ReplaceAll(quoted, <<"\\", "|">>, <<"|">>)
        r2 == ReplaceAll(r1, <<"\\", "^">>, <<"^">>)
        r3 == ReplaceAll(r2, <<"\\", "*">>, <<"*">>)
        r4 == ReplaceAll(r3, <<"^">>, SepPattern)
        r5 == ReplaceAll(r4, <<"*">>, <<".", "*">>)
    IN IF r5[Len(r5)] = "|" THEN SubSeq(r5, 1, Len(r5) - 1) \o <<"$">> ELSE r5

\* ruleToRegexp: the pattern text, or an abort where the code slices rule[:2]
\* of a one-character rule (a Go run-time panic: slice bounds out of range)
ruleToRegexp(r) ==
    LET text == r.RuleText
        length == Len(text)
    IN IF text = <<>> THEN [abort |-> FALSE, str |-> <<".", "*">>]
       ELSE IF length >= 2 /\ text[1] = "/" /\ text[length] = "/"
       THEN [abort |-> FALSE, str |-> SubSeq(text, 2, length - 1)]
       ELSE LET rule == QuotedRule(text)
            IN IF Len(rule) < 2 THEN [abort |-> TRUE, str |-> <<>>]
               ELSE LET anchored ==
                            IF SubSeq(rule, 1, 2) = <<"|", "|">>
                            THEN IF Len(rule) > 2
                                 THEN <<"^">> \o DomainGroups \o SubSeq(rule, 3, Len(rule))
                                 ELSE rule
                            ELSE IF rule[1] = "|"
                                 THEN <<"^">> \o Tail(rule)
                                 ELSE rule
                        cased == IF OptMatchCase \in DOMAIN r.Options
                                 THEN anchored
                                 ELSE CaseFlag \o anchored
                    IN [abort |-> FALSE, str |-> EscapePipes(cased)]

(***************************************************************************)
(* regexp.Compile and Regexp.MatchString, for the pattern syntax that      *)
(* ruleToRegexp can produce: (?i), ^, $, ., literals, \-escapes, *, a      *)
(* top-level |, and the two fixed groups SepPattern and DomainGroups.      *)
(***************************************************************************)

\* one token of a pattern and the number of characters it takes
NextToken(s) ==
    IF HasPrefix(s, SepPattern) THEN [k |-> "sep", c |-> "", n |-> Len(SepPattern)]
    ELSE IF HasPrefix(s, DomainGroups) THEN [k |-> "dom", c |-> "", n |-> Len(DomainGroups)]
    ELSE IF s[1] = "\\"
         THEN IF Len(s) >= 2 /\ s[2] \in MetaChars
              THEN [k |-> "lit", c |-> s[2], n |-> 2]
              ELSE [k |-> "bad", c |-> "", n |-> 1]
    ELSE IF s[1] = "." THEN [k |-> "any", c |-> "", n |-> 1]
    ELSE IF s[1] = "^" THEN [k |-> "bol", c |-> "", n |-> 1]
    ELSE IF s[1] = "$" THEN [k |-> "eol", c |-> "", n |-> 1]
    ELSE IF s[1] = "*" THEN [k |-> "star", c |-> "", n |-> 1]
    ELSE IF s[1] = "|" THEN [k |-> "alt", c |-> "", n |-> 1]
    ELSE IF s[1] \in MetaChars THEN [k |-> "bad", c |-> "", n |-> 1]
    ELSE [k |-> "lit", c |-> s[1], n |-> 1]

RECURSIVE Tokens(_)
Tokens(s) ==
    IF s = <<>> THEN <<>>
    ELSE LET t == NextToken(s)
         IN <<[k |-> t.k, c |-> t.c]>> \o Tokens(SubSeq(s, t.n + 1, Len(s)))

\* the alternatives of a token list: each a sequence of pieces [k, c, star];
\* "bad" marks a syntax error (a repetition with nothing to repeat, a doubled
\* repetition, an unmatched parenthesis or an unsupported construct)
RECURSIVE Alternatives(_, _, _)
Alternatives(toks, done, cur) ==
    IF toks = <<>> THEN [ok |-> TRUE, alts |-> Append(done, cur)]
    ELSE LET t == toks[1]
         IN IF t.k = "bad" THEN [ok |-> FALSE, alts |-> <<>>]
            ELSE IF t.k = "alt" THEN Alternatives(Tail(toks), Append(done, cur), <<>>)
            ELSE IF t.k = "star"
                 THEN IF cur = <<>> \/ cur[Len(cur)].star
                      THEN [ok |-> FALSE, alts |-> <<>>]
                      ELSE Alternatives(Tail(toks), done,
                                        [cur EXCEPT ![Len(cur)].star = TRUE])
            ELSE Alternatives(Tail(toks), done,
                              Append(cur, [k |-> t.k, c |-> t.c, star |-> FALSE]))

\* regexp.Compile: [ok, ci, alts]
Compile(str) ==
    LET ci == HasPrefix(str, CaseFlag)
        body == IF ci THEN SubSeq(str, Len(CaseFlag) + 1, Len(str)) ELSE str
        parsed == Alternatives(Tokens(body), <<>>, <<>>)
    IN [ok |-> parsed.ok, ci |-> ci, alts |-> parsed.alts]

\* the characters the class [^\w\d_\\\-.%] accepts
IsSeparator(c) ==
    /\ c \notin Range(UpperLetters) \cup Range(LowerLetters) \cup Digits
    /\ c \notin {"_", "\\", "-", ".", "%"}

\* the positions DomainGroups can reach from position p of s (a position is
\* the number of characters consumed)
DomainEnds(s, p) ==
    LET n == Len(s)
        afterScheme ==
            {p} \cup {j \in (p + 2)..n :
                        /\ s[j] = ":"
                        /\ \A k \in (p + 1)..(j - 1) : s[k] \notin {":", "/", "?", "#"}}
        afterSlashes(q) ==
            {q} \cup {j \in (q + 1)..n :
                        /\ s[j] = "."
                        /\ \A k \in (q + 1)..(j - 1) : s[k] \notin {"/", "?", "#"}}
    IN UNION {{p1} \cup (IF p1 + 2 <= n /\ s[p1 + 1] = "/" /\ s[p1 + 2] = "/"
                         THEN afterSlashes(p1 + 2) ELSE {})
              : p1 \in afterScheme}

\* the positions one piece (without its star) reaches from the positions P
StepOnce(piece, ci, s, P) ==
    LET n == Len(s)
    IN CASE piece.k = "lit" ->
              {p + 1 : p \in {q \in P : q < n /\
                                (IF ci THEN LowerChar(s[q + 1]) = LowerChar(piece.c)
                                       ELSE s[q + 1] = piece.c)}}
         [] piece.k = "any" -> {p + 1 : p \in {q \in P : q < n}}
         [] piece.k = "bol" -> P \cap {0}
         [] piece.k = "eol" -> P \cap {n}
         [] piece.k = "sep" ->
              {p + 1 : p \in {q \in P : q < n /\ IsSeparator(s[q + 1])}} \cup (P \cap {n})
         [] piece.k = "dom" -> UNION {DomainEnds(s, p) : p \in P}

RECURSIVE StarClosure(_, _, _, _)
StarClosure(piece, ci, s, P) ==
    LET Q == P \cup StepOnce(piece, ci, s, P)
    IN IF Q = P THEN P ELSE StarClosure(piece, ci, s, Q)

RECURSIVE RunPieces(_, _, _, _)
RunPieces(pieces, ci, s, P) ==
    IF pieces = <<>> \/ P = {} THEN P
    ELSE RunPieces(Tail(pieces), ci, s,
                   IF pieces[1].star THEN StarClosure(pieces[1], ci, s, P)
                   ELSE StepOnce(pieces[1], ci, s, P))

\* Regexp.MatchString: some alternative matches somewhere in s
MatchString(re, s) ==
    \E i \in DOMAIN re.alts : RunPieces(re.alts[i], re.ci, s, 0..Len(s)) # {}

(***************************************************************************)
(* ParseRule (src/rules.go)                                                *)
(***************************************************************************)

\* the empty Go map
EmptyMap == [x \in {} |-> TRUE]

\* m[k] = v
MapPut(m, k, v) == [x \in DOMAIN m \cup {k} |-> IF x = k THEN v ELSE m[x]]

\* RuleType
AddressPart == 0
DomainName == 1
ExactAddress == 2
RegexRule == 3

DomainEq == <<"d","o","m","a","i","n","=">>
AdblockHeader == <<"[","A","d","b","l","o","c","k">>

\* the loop over the names of one domain= option (rules.go 110-113)
RECURSIVE AddDomains(_, _)
AddDomains(domains, names) ==
    IF names = <<>> THEN domains
    ELSE LET name == TrimSpace(names[1])
         IN AddDomains(MapPut(domains, TrimPrefix(name, <<"~">>), ~HasPrefix(name, <<"~">>)),
                       Tail(names))

\* the loop over the option list (rules.go 103-119): the maps it fills, and
\* whether it returned ErrUnsupportedRule
RECURSIVE ParseOptions(_, _)
ParseOptions(acc, opts) ==
    IF opts = <<>> \/ acc.unsupported THEN acc
    ELSE LET optionNegative == ~HasPrefix(opts[1], <<"~">>)
             option == TrimPrefix(opts[1], <<"~">>)
             supportedOption == option \in supportedOptions
         IN IF HasPrefix(option, DomainEq)
            THEN ParseOptions(
                   [acc EXCEPT !.Domains =
                       AddDomains(@, Split(SubSeq(option, Len(DomainEq) + 1, Len(option)), "|"))],
                   Tail(opts))
            ELSE IF ~supportedOption
            THEN [acc EXCEPT !.unsupported = TRUE]
            ELSE ParseOptions([acc EXCEPT !.Options = MapPut(@, option, optionNegative)],
                              Tail(opts))

\* the rule type of a match text (rules.go 122-135)
ClassifyRule(text) ==
    IF text = <<>> \/ (HasPrefix(text, <<"/">>) /\ HasSuffix(text, <<"/">>)) THEN RegexRule
    ELSE IF HasPrefix(text, <<"|">>) /\ HasSuffix(text, <<"|">>) THEN ExactAddress
    ELSE IF HasPrefix(text, <<"|", "|">>) /\ HasSuffix(text, <<"^">>) THEN DomainName
    ELSE AddressPart

NoRule == [RuleText |-> <<>>, Regex |-> [ok |-> FALSE, ci |-> FALSE, alts |-> <<>>],
           Options |-> EmptyMap, IsException |-> FALSE, Domains |-> EmptyMap,
           RuleType |-> AddressPart]

\* ParseRule: kind is "Rule", one of the four skip errors, "CompileError" (the
\* error regexp.Compile returned) or "Abort" (a run-time panic)
ParseRule(line) ==
    LET trimmed == TrimSpace(line)
    IN IF trimmed = <<>> THEN [kind |-> "EmptyLine", rule |-> NoRule]
       ELSE IF HasPrefix(trimmed, <<"!">>) \/ HasPrefix(trimmed, AdblockHeader)
       THEN [kind |-> "CommentLine", rule |-> NoRule]
       ELSE IF \/ Contains(trimmed, <<"#", "#">>)
               \/ Contains(trimmed, <<"#", "@", "#">>)
               \/ Contains(trimmed, <<"#", "?", "#">>)
       THEN [kind |-> "CosmeticRule", rule |-> NoRule]
       ELSE LET isException == HasPrefix(trimmed, <<"@", "@">>)
                noMark == IF isException THEN SubSeq(trimmed, 3, Len(trimmed)) ELSE trimmed
                hasOpts == Contains(noMark, <<"$">>)
                parts == IF hasOpts THEN SplitN2(noMark, "$") ELSE <<noMark, <<>>>>
                opts == IF hasOpts
                        THEN ParseOptions([Domains |-> EmptyMap, Options |-> EmptyMap,
                                           unsupported |-> FALSE], Split(parts[2], ","))
                        ELSE [Domains |-> EmptyMap, Options |-> EmptyMap,
                              unsupported |-> FALSE]
            IN IF opts.unsupported THEN [kind |-> "UnsupportedRule", rule |-> NoRule]
               ELSE LET rule == [RuleText |-> parts[1], Regex |-> NoRule.Regex,
                                 Options |-> opts.Options, IsException |-> isException,
                                 Domains |-> opts.Domains,
                                 RuleType |-> ClassifyRule(parts[1])]
                        pattern == ruleToRegexp(rule)
                        re == Compile(pattern.str)
                    IN IF pattern.abort THEN [kind |-> "Abort", rule |-> NoRule]
                       ELSE IF ~re.ok THEN [kind |-> "CompileError", rule |-> NoRule]
                       ELSE [kind |-> "Rule", rule |-> [rule EXCEPT !.Regex = re]]

(***************************************************************************)
(* The request: net/url's URL.Hostname and URL.String                      *)
(***************************************************************************)

\* shouldEscape(c, encodePath)
ShouldEscape(c) ==
    /\ c \notin Range(UpperLetters) \cup Range(LowerLetters) \cup Digits
    /\ c \notin {"-", "_", ".", "~"}
    /\ c \notin {"$", "&", "+", ",", "/", ":", ";", "=", "@"}

\* validEncoded(s, encodePath)
ValidEncoded(s) ==
    \A i \in DOMAIN s :
        \/ s[i] \in {"!", "$", "&", "'", "(", ")", "*", "+", ",", ";", "=", ":", "@",
                     "[", "]", "%"}
        \/ ~ShouldEscape(s[i])

\* the %XX form of the escaped characters the model's paths use
PercentCode(c) ==
    CASE c = "|" -> <<"%", "7", "C">>
      [] c = "^" -> <<"%", "5", "E">>
      [] c = "*" -> <<"%", "2", "A">>
      [] c = " " -> <<"%", "2", "0">>
      [] c = "?" -> <<"%", "3", "F">>
      [] c = "#" -> <<"%", "2", "3">>

\* escape(s, encodePath)
RECURSIVE Escape(_)
Escape(s) ==
    IF s = <<>> THEN <<>>
    ELSE (IF ShouldEscape(s[1]) THEN PercentCode(s[1]) ELSE <<s[1]>>) \o Escape(Tail(s))

\* URL.EscapedPath: RawPath when it is a valid encoding of Path (a RawPath
\* without % unescapes to itself), else the default encoding of Path
EscapedPath(u) ==
    IF /\ u.RawPath # <<>>
       /\ ValidEncoded(u.RawPath)
       /\ "%" \notin Range(u.RawPath)
       /\ u.RawPath = u.Path
    THEN u.RawPath
    ELSE Escape(u.Path)

\* URL.String for a URL with a scheme and a host and no user, query or fragment
URLString(u) ==
    LET path == EscapedPath(u)
    IN u.Scheme \o <<":", "/", "/">> \o u.Host
       \o (IF path # <<>> /\ path[1] # "/" THEN <<"/">> ELSE <<>>) \o path

\* URL.Hostname for a host without port or brackets
Hostname(u) == u.Host

(***************************************************************************)
(* The gates: matchDomains and matchOptions (src/unnamed/part_000)         *)
(***************************************************************************)

\* the text between || and ^ of a DomainName rule: ruleText[2 : len-1]
BaseDomain(rule) == Slice(rule.RuleText, 2, Len(rule.RuleText) - 1)

\* a matchDomains that passes as soon as one entry of the domains mapping
\* agrees with the host name
matchDomainsAnyEntry(rule, req) ==
    LET hostname == ToLower(Hostname(req.URL))
    IN /\ rule.RuleType = DomainName => HasSuffix(hostname, BaseDomain(rule))
       /\ \/ DOMAIN rule.Domains = {}
          \/ \E domain \in DOMAIN rule.Domains :
                 HasSuffix(hostname, domain) = rule.Domains[domain]

matchDomains(rule, req) ==
    LET hostname == ToLower(Hostname(req.URL))
    IN /\ rule.RuleType = DomainName => HasSuffix(hostname, BaseDomain(rule))
       /\ \A domain \in DOMAIN rule.Domains :
              HasSuffix(hostname, domain) = rule.Domains[domain]

\* filepath.Ext: the suffix of the last path element from its last dot on
Ext(path) ==
    LET dots == {i \in DOMAIN path :
                   path[i] = "." /\ \A j \in i..Len(path) : path[j] # "/"}
    IN IF dots = {} THEN <<>>
       ELSE SubSeq(path, CHOOSE i \in dots : \A j \in dots : j <= i, Len(path))

ScriptExts == {<<".","j","s">>}
ImageExts == {<<".","j","p","g">>, <<".","j","p","e","g">>, <<".","p","n","g">>,
              <<".","g","i","f">>, <<".","w","e","b","p">>, <<".","t","i","f","f">>,
              <<".","p","s","d">>, <<".","r","a","w">>, <<".","b","m","p">>,
              <<".","h","e","i","f">>, <<".","i","n","d","d">>,
              <<".","j","p","e","g","2","0","0","0">>}
StylesheetExts == {<<".","c","s","s">>}
FontExts == {<<".","o","t","f">>, <<".","t","t","f">>, <<".","f","n","t">>}

\* the extension set of an option that has one (the switch of matchOptions)
ExtsOf(option) ==
    CASE option = OptScript -> ScriptExts
      [] option = OptImage -> ImageExts
      [] option = OptStylesheet -> StylesheetExts
      [] option = OptFont -> FontExts

GzSuffix == <<".","g","z">>

\* a matchOptions that takes the extension of the path as it stands, a
\* trailing .gz included
matchOptionsKeepGz(rule, req) ==
    LET path == ToLower(req.URL.Path)
    IN IF DOMAIN rule.Options = {} THEN TRUE
       ELSE \E option \in DOMAIN rule.Options :
               /\ option \in {OptScript, OptImage, OptStylesheet, OptFont}
               /\ IF Ext(path) \in ExtsOf(option)
                  THEN rule.Options[option]
                  ELSE ~rule.Options[option]

\* a matchOptions for which an option without an extension set is met
matchOptionsOthersPass(rule, req) ==
    LET lower == ToLower(req.URL.Path)
        path == IF HasSuffix(lower, GzSuffix)
                THEN SubSeq(lower, 1, Len(lower) - Len(GzSuffix))
                ELSE lower
    IN IF DOMAIN rule.Options = {} THEN TRUE
       ELSE \E option \in DOMAIN rule.Options :
               IF option \in {OptScript, OptImage, OptStylesheet, OptFont}
               THEN IF Ext(path) \in ExtsOf(option)
                    THEN rule.Options[option]
                    ELSE ~rule.Options[option]
               ELSE TRUE

matchOptions(rule, req) ==
    LET lower == ToLower(req.URL.Path)
        path == IF HasSuffix(lower, GzSuffix)
                THEN SubSeq(lower, 1, Len(lower) - Len(GzSuffix))
                ELSE lower
    IN IF DOMAIN rule.Options = {} THEN TRUE
       ELSE \E option \in DOMAIN rule.Options :
               /\ option \in {OptScript, OptImage, OptStylesheet, OptFont}
               /\ IF Ext(path) \in ExtsOf(option)
                  THEN rule.Options[option]
                  ELSE ~rule.Options[option]

(***************************************************************************)
(* The trie: PathMatcher and Matcher (src/unnamed/part_000)                *)
(***************************************************************************)

\* a PathMatcher with no child and no rule
EmptyPathMatcher == [next |-> EmptyMap, rules |-> <<>>]

RECURSIVE addPath(_, _, _)
addPath(pathMatcher, runes, rule) ==
    IF runes = <<>> \/ runes[1] = "^"
    THEN [pathMatcher EXCEPT !.rules = Append(@, rule)]
    ELSE LET child == IF runes[1] \in DOMAIN pathMatcher.next
                      THEN pathMatcher.next[runes[1]]
                      ELSE EmptyPathMatcher
         IN [pathMatcher EXCEPT
               !.next = MapPut(@, runes[1], addPath(child, Tail(runes), rule))]

\* line 75: a terminal rule accepts the request
Accepts(rule, req) ==
    /\ matchDomains(rule, req)
    /\ matchOptions(rule, req)
    /\ MatchString(rule.Regex, URLString(req.URL))

\* a findNext that consults the terminal rules of a node only when the node
\* holds exactly one
RECURSIVE findNextSingleRule(_, _, _)
findNextSingleRule(pathMatcher, runes, req) ==
    IF Len(pathMatcher.rules) = 1 /\ Accepts(pathMatcher.rules[1], req) THEN TRUE
    ELSE IF runes = <<>> THEN FALSE
    ELSE IF /\ runes[1] \in DOMAIN pathMatcher.next
            /\ findNextSingleRule(pathMatcher.next[runes[1]], Tail(runes), req)
    THEN TRUE
    ELSE /\ "*" \in DOMAIN pathMatcher.next
         /\ \E i \in 1..Len(runes) :
                findNextSingleRule(pathMatcher.next["*"], SubSeq(runes, i, Len(runes)), req)

RECURSIVE findNext(_, _, _)
findNext(pathMatcher, runes, req) ==
    IF \E i \in DOMAIN pathMatcher.rules : Accepts(pathMatcher.rules[i], req) THEN TRUE
    ELSE IF runes = <<>> THEN FALSE
    ELSE IF /\ runes[1] \in DOMAIN pathMatcher.next
            /\ findNext(pathMatcher.next[runes[1]], Tail(runes), req)
    THEN TRUE
    ELSE /\ "*" \in DOMAIN pathMatcher.next
         /\ \E i \in 1..Len(runes) :
                findNext(pathMatcher.next["*"], SubSeq(runes, i, Len(runes)), req)

\* Matcher.add: a rule of a type without a case is stored nowhere
MatcherAdd(matcher, rule) ==
    CASE rule.RuleType = AddressPart ->
           [matcher EXCEPT !.addressPartMatcher = addPath(@, rule.RuleText, rule)]
      [] rule.RuleType = DomainName ->
           [matcher EXCEPT !.domainNameMatcher = addPath(@, BaseDomain(rule), rule)]
      [] rule.RuleType = ExactAddress ->
           [matcher EXCEPT !.exactAddressMatcher =
               addPath(@, Slice(rule.RuleText, 1, Len(rule.RuleText) - 1), rule)]
      [] OTHER -> matcher

\* a Match that probes the address-part index at offset 0 of the path only
MatcherMatchFirstOffset(matcher, req) ==
    LET pathRunes == req.URL.Path
        hnRunes == Hostname(req.URL)
        uriRunes == URLString(req.URL)
    IN \/ pathRunes # <<>> /\ findNext(matcher.addressPartMatcher, pathRunes, req)
       \/ \E i \in 1..Len(hnRunes) :
              findNext(matcher.domainNameMatcher, SubSeq(hnRunes, i, Len(hnRunes)), req)
       \/ findNext(matcher.exactAddressMatcher, uriRunes, req)

\* Matcher.Match
MatcherMatch(matcher, req) ==
    LET pathRunes == req.URL.Path
        hnRunes == Hostname(req.URL)
        uriRunes == URLString(req.URL)
    IN \/ \E i \in 1..Len(pathRunes) :
              findNext(matcher.addressPartMatcher, SubSeq(pathRunes, i, Len(pathRunes)), req)
       \/ \E i \in 1..Len(hnRunes) :
              findNext(matcher.domainNameMatcher, SubSeq(hnRunes, i, Len(hnRunes)), req)
       \/ findNext(matcher.exactAddressMatcher, uriRunes, req)

(***************************************************************************)
(* RuleSet (src/rules.go)                                                  *)
(***************************************************************************)

EmptyMatcher == [addressPartMatcher |-> EmptyPathMatcher,
                 domainNameMatcher |-> EmptyPathMatcher,
                 exactAddressMatcher |-> EmptyPathMatcher]

CreateRuleSet == [white |-> EmptyMatcher, black |-> EmptyMatcher]

\* an AddRule that hands every rule to the blacklist matcher
AddRuleAllBlack(rs, rule) == [rs EXCEPT !.black = MatcherAdd(@, rule)]

AddRule(rs, rule) ==
    IF ~rule.IsException
    THEN [rs EXCEPT !.black = MatcherAdd(@, rule)]
    ELSE [rs EXCEPT !.white = MatcherAdd(@, rule)]

Allow(rs, req) == MatcherMatch(rs.white, req) \/ ~MatcherMatch(rs.black, req)

(***************************************************************************)
(* The state machine: a caller that parses lines, adds the parsed rules    *)
(* and asks Allow for requests.                                            *)
(***************************************************************************)

VARIABLES
    mode,       \* which input universe the caller draws from (fixed by Init)
    ruleSet,    \* the RuleSet made by CreateRuleSet
    added,      \* history: the rules passed to AddRule, in order
    last,       \* the last call: its operation, input and result
    calls       \* the calls of Allow in progress, one per concurrent caller

vars == <<mode, ruleSet, added, last, calls>>

\* bounds of the input universes
MaxRules == 2
MaxTextLen == 3
MaxPathLen == 3
MaxDomainLen == 2
MaxHostLen == 3

RECURSIVE StringsUpTo(_, _)
StringsUpTo(alphabet, n) ==
    IF n = 0 THEN {<<>>}
    ELSE LET shorter == StringsUpTo(alphabet, n - 1)
         IN shorter \cup {Append(s, c) : s \in shorter, c \in alphabet}

Http == <<"h","t","t","p">>

MkRequest(host, path, raw) ==
    [URL |-> [Scheme |-> Http, Host |-> host, Path |-> path,
              RawPath |-> IF raw THEN path ELSE <<>>]]

NoRequest == MkRequest(<<>>, <<>>, FALSE)

NoCall == [op |-> "none", line |-> <<>>, kind |-> "", rule |-> NoRule,
           req |-> NoRequest, result |-> FALSE]

\* ---- the general universe: one line of every shape the parser knows ----
GeneralLines ==
    { <<"a","d">>,                                          \* ad
      <<"@","@","a","d","/","s">>,                          \* @@ad/s
      <<"a","d","^","x">>,                                  \* ad^x
      <<"a","*","s">>,                                      \* a*s
      <<"|","|","a",".","b","^">>,                          \* ||a.b^
      <<"|","h","t","t","p",":","/","/","a",".","b","/","a","d","|">>,
      <<"/","a","d","/">>,                                  \* /ad/
      <<"a","d","$","d","o","m","a","i","n","=","a",".","b","|","~","c",".","a",".","b">>,
      <<"a","d","$","s","c","r","i","p","t">>,              \* ad$script
      <<"a","d","$","~","i","m","a","g","e",",","f","o","n","t">>,
      <<"a","d","$","t","h","i","r","d","-","p","a","r","t","y">>,
      <<" ","!","a","d">>,                                  \* a comment
      <<"a","#","#","d">>,                                  \* a cosmetic rule
      <<"a","d","$","p","o","p","u","p">>,                  \* an unknown option
      <<" ">>,                                              \* an empty line
      <<"d">> }                                             \* a one-character text

GeneralHosts == { <<"a",".","b">>, <<"c",".","a",".","b">>, <<"x","a",".","b">>, <<"A",".","b">> }

GeneralPaths ==
    { <<"/","a","d">>, <<"/","a","d","/","s">>, <<"/","a","d",".","j","s">>,
      <<"/","a","d",".","j","s",".","g","z">>, <<"/","a","d",".","P","N","G">>,
      <<"/","a","d",".","t","t","f">>, <<"/","a","x","s">>, <<"/","a","d","/","x">>, <<>> }

GeneralRequests == {MkRequest(h, p, FALSE) : h \in GeneralHosts, p \in GeneralPaths}

\* ---- the parse universe: every match text up to MaxTextLen, plain, as an
\* ---- exception and with an option suffix, and the general lines
TextAlphabet == {"a", "/", "|", "^", "*", "."}

ParseSuffixes == { <<>>, <<"$","s","c","r","i","p","t">>,
                   <<"$","m","a","t","c","h","-","c","a","s","e">> }

ParseLines ==
    GeneralLines \cup
    {pre \o text \o suf : pre \in {<<>>, <<"@","@">>},
                          text \in StringsUpTo(TextAlphabet, MaxTextLen),
                          suf \in ParseSuffixes}

\* ---- the address universe: one rule with no option, and every path over
\* ---- the same characters
AddrAlphabet == {"a", "*", "|", "^"}

AddrLines == StringsUpTo(AddrAlphabet, MaxTextLen) \ {<<>>}

AddrHost == <<"h">>

\* a URL made by url.Parse keeps the path it was given as RawPath when the
\* default encoding differs from it; a URL built field by field has none
AddrRequests ==
    LET paths == {<<"/">> \o s : s \in StringsUpTo(AddrAlphabet, MaxPathLen)}
    IN {MkRequest(AddrHost, p, FALSE) : p \in paths}
       \cup {MkRequest(AddrHost, p, TRUE) : p \in {q \in paths : Escape(q) # q}}

\* ---- the domain universe: one rule ||D^ and every host name over the
\* ---- same characters
HostAlphabet == {"a", "b", "A", "."}

DomLines ==
    {<<"|", "|">> \o d \o <<"^">> : d \in StringsUpTo(HostAlphabet, MaxDomainLen) \ {<<>>}}

DomRequests ==
    {MkRequest(h, p, FALSE) : h \in StringsUpTo(HostAlphabet, MaxHostLen) \ {<<>>},
                              p \in {<<>>, <<"/", "x">>}}

\* ---- the lookup universe: keys with one and with two consecutive *, an
\* ---- exception and a domain rule, and requests they block and allow
MatchLines ==
    { <<"a","*","*","b">>, <<"a","*">>, <<"@","@","a","b">>, <<"|","|","a","^">> }

MatchRequests ==
    {MkRequest(<<"a">>, <<"/","a","b">>, FALSE), MkRequest(<<"b">>, <<"/","a","x","b">>, FALSE),
     MkRequest(<<"b">>, <<"/","b">>, FALSE)}

\* ---- the option universe: the text ad with the options that have no
\* ---- case of their own in matchOptions, alone, negated, combined and on
\* ---- an exception, next to the plain text and a script option
OptionLines ==
    { <<"a","d">>,
      <<"a","d","$">> \o OptThirdParty,
      <<"a","d","$","~">> \o OptXHR,
      <<"a","d","$">> \o OptMatchCase,
      <<"a","d","$">> \o OptThirdParty \o <<",">> \o OptMatchCase,
      <<"@","@","a","d","$">> \o OptXHR,
      <<"a","d","$">> \o OptMatchCase \o <<",">> \o OptScript }

OptionRequests ==
    {MkRequest(<<"a",".","b">>, p, FALSE) :
        p \in {<<"/","a","d">>, <<"/","a","d",".","j","s">>, <<"/","A","D">>, <<"/","x">>}}

\* the concurrent callers of Allow: none where the caller runs Allow in one
\* step, one in the lookup universe, two where calls interleave
CallersOf(m) ==
    CASE m = "find" -> {"c1"}
      [] m = "serve" -> {"c1", "c2"}
      [] OTHER -> {}

\* a caller that is not inside Allow
IdleCall == [pc |-> "idle", req |-> NoRequest, which |-> "white", probes |-> <<>>,
             stack |-> <<>>, stars |-> FALSE, result |-> FALSE]

Lines ==
    CASE mode = "general" -> GeneralLines
      [] mode = "parse" -> ParseLines
      [] mode = "addr" -> AddrLines
      [] mode = "dom" -> DomLines
      [] mode \in {"find", "serve"} -> MatchLines
      [] mode = "opts" -> OptionLines

Requests ==
    CASE mode = "general" -> GeneralRequests
      [] mode = "parse" -> {}
      [] mode = "addr" -> AddrRequests
      [] mode = "dom" -> DomRequests
      [] mode \in {"find", "serve"} -> MatchRequests
      [] mode = "opts" -> OptionRequests

\* how many rules the caller adds: the address and the domain universe look
\* at one rule alone
RulesCap == IF mode \in {"general", "find", "serve", "opts"} THEN MaxRules ELSE 1

InitIn(m) ==
    /\ mode = m
    /\ ruleSet = CreateRuleSet
    /\ added = <<>>
    /\ last = NoCall
    /\ calls = [c \in CallersOf(m) |-> IdleCall]

\* a call of ParseRule by an idle caller
ParseStep(line) ==
    /\ last.op = "none"
    /\ LET parsed == ParseRule(line)
       IN last' = [NoCall EXCEPT !.op = "parse", !.line = line,
                                 !.kind = parsed.kind, !.rule = parsed.rule]
    /\ UNCHANGED <<mode, ruleSet, added, calls>>

\* a call of AddRule with the rule the last ParseRule returned
AddStep ==
    /\ last.op = "parse"
    /\ last.kind = "Rule"
    /\ Len(added) < RulesCap
    /\ ruleSet' = AddRule(ruleSet, last.rule)
    /\ added' = Append(added, last.rule)
    /\ last' = [last EXCEPT !.op = "add"]
    /\ UNCHANGED <<mode, calls>>

\* a call of Allow by an idle caller
AllowStep(req) ==
    /\ last.op = "none"
    /\ last' = [NoCall EXCEPT !.op = "allow", !.req = req, !.result = Allow(ruleSet, req)]
    /\ UNCHANGED <<mode, ruleSet, added, calls>>

\* the caller has used the result of its last call and is idle again
Return ==
    /\ last.op \in {"parse", "add", "allow"}
    /\ last' = NoCall
    /\ UNCHANGED <<mode, ruleSet, added, calls>>

Next ==
    \/ \E line \in Lines : ParseStep(line)
    \/ AddStep
    \/ \E req \in Requests : AllowStep(req)
    \/ Return

Init == InitIn("general")

Spec == Init /\ [][Next]_vars

\* the caller only parses lines of the parse universe
InitParse == InitIn("parse")

NextParse ==
    \/ \E line \in Lines : ParseStep(line)
    \/ Return

SpecParse == InitParse /\ [][NextParse]_vars

\* the caller works in the address universe
InitAddr == InitIn("addr")

SpecAddr == InitAddr /\ [][Next]_vars

\* the caller works in the domain universe
InitDom == InitIn("dom")

SpecDom == InitDom /\ [][Next]_vars

\* the caller works in the option universe
InitOpts == InitIn("opts")

SpecOpts == InitOpts /\ [][Next]_vars

(***************************************************************************)
(* Allow step by step: the caller loads the rules, then callers run Allow  *)
(* one findNext step at a time on the shared RuleSet.  A call keeps the    *)
(* matcher it is in, the probes of Matcher.Match still to make and the     *)
(* stack of findNext frames of the current probe.                          *)
(***************************************************************************)

\* the deepest stack of findNext frames the model follows
MaxStack == 6

\* the probes of Matcher.Match in order: the address-part index with every
\* suffix of the path, the domain-name index with every suffix of the host
\* name, the exact-address index with the whole URL
ProbesOf(req) ==
    LET pathRunes == req.URL.Path
        hnRunes == Hostname(req.URL)
        uriRunes == URLString(req.URL)
    IN [i \in 1..Len(pathRunes) |->
           [index |-> "addressPartMatcher", runes |-> SubSeq(pathRunes, i, Len(pathRunes))]]
       \o [i \in 1..Len(hnRunes) |->
           [index |-> "domainNameMatcher", runes |-> SubSeq(hnRunes, i, Len(hnRunes))]]
       \o << [index |-> "exactAddressMatcher", runes |-> uriRunes] >>

\* the frame of findNext called on the root of an index
RootFrame(probe) == [node |-> <<>>, runes |-> probe.runes, stage |-> "rules", i |-> 0]

\* the PathMatcher that the characters of path lead to
RECURSIVE NodeAt(_, _)
NodeAt(pathMatcher, path) ==
    IF path = <<>> THEN pathMatcher
    ELSE NodeAt(pathMatcher.next[path[1]], Tail(path))

TopFrame(call) == call.stack[Len(call.stack)]

\* the receiver of the findNext in the top frame
TopNode(rs, call) ==
    NodeAt(rs[call.which][Head(call.probes).index], TopFrame(call).node)

\* the top frame moves to another stage of findNext
AtStage(call, stage, i) ==
    [call EXCEPT !.stack[Len(call.stack)] = [@ EXCEPT !.stage = stage, !.i = i]]

\* Match is called on the white or the black matcher
BeginMatch(call, which) ==
    [call EXCEPT !.which = which,
                 !.probes = ProbesOf(call.req),
                 !.stack = <<RootFrame(Head(ProbesOf(call.req)))>>]

\* Match returns to Allow: white.Match(req) || !black.Match(req)
MatchReturns(call, match) ==
    IF call.which = "white" /\ ~match THEN BeginMatch(call, "black")
    ELSE [call EXCEPT !.pc = "done", !.stack = <<>>, !.probes = <<>>,
                      !.result = IF call.which = "white" THEN TRUE ELSE ~match]

\* the findNext of the top frame returns: true goes up through every caller
\* to Match; false takes the calling findNext to its wildcard loop, or
\* Match to its next probe
FindNextReturns(call, match) ==
    LET depth == Len(call.stack)
    IN IF match THEN MatchReturns(call, TRUE)
       ELSE IF depth > 1
       THEN LET caller == call.stack[depth - 1]
            IN AtStage([call EXCEPT !.stack = SubSeq(@, 1, depth - 1)], "star",
                       IF caller.stage = "inStar" THEN caller.i + 1 ELSE 0)
       ELSE IF Len(call.probes) > 1
       THEN [call EXCEPT !.probes = Tail(@), !.stack = <<RootFrame(call.probes[2])>>]
       ELSE MatchReturns(call, FALSE)

\* the frame of the findNext on the child for the first character
ChildFrame(frame) ==
    [node |-> Append(frame.node, frame.runes[1]), runes |-> Tail(frame.runes),
     stage |-> "rules", i |-> 0]

\* a wildcard step that calls findNext on the node itself
WildcardFrameSameNode(frame) ==
    [node |-> frame.node,
     runes |-> SubSeq(frame.runes, frame.i + 1, Len(frame.runes)),
     stage |-> "rules", i |-> 0]

\* the frame of the findNext on the * child with runes[i:]
WildcardFrame(frame) ==
    [node |-> Append(frame.node, "*"),
     runes |-> SubSeq(frame.runes, frame.i + 1, Len(frame.runes)),
     stage |-> "rules", i |-> 0]

\* the caller has loaded its rules and lets the callers ask
StartServing ==
    /\ last.op = "none"
    /\ last' = [NoCall EXCEPT !.op = "serve"]
    /\ UNCHANGED <<mode, ruleSet, added, calls>>

\* a caller calls Allow: white.Match starts with its first probe
CallAllow(c, req) ==
    /\ last.op = "serve"
    /\ calls[c].pc = "idle"
    /\ calls' = [calls EXCEPT ![c] =
                    BeginMatch([IdleCall EXCEPT !.pc = "run", !.req = req], "white")]
    /\ UNCHANGED <<mode, ruleSet, added, last>>

\* findNext looks through the terminal rules of its node, then at the
\* length of runes
FindNextRules(c) ==
    /\ calls[c].pc = "run"
    /\ TopFrame(calls[c]).stage = "rules"
    /\ LET call == calls[c]
           node == TopNode(ruleSet, call)
       IN calls' = [calls EXCEPT ![c] =
              IF \E i \in DOMAIN node.rules : Accepts(node.rules[i], call.req)
              THEN FindNextReturns(call, TRUE)
              ELSE IF TopFrame(call).runes = <<>>
              THEN FindNextReturns(call, FALSE)
              ELSE AtStage(call, "child", 0)]
    /\ UNCHANGED <<mode, ruleSet, added, last>>

\* a lookup of the child that adds the child it does not find
FindNextChildInserting(c) ==
    /\ calls[c].pc = "run"
    /\ TopFrame(calls[c]).stage = "child"
    /\ Len(calls[c].stack) < MaxStack
    /\ LET call == calls[c]
           top == TopFrame(call)
           index == Head(call.probes).index
           key == Append(top.node, top.runes[1])
           found == top.runes[1] \in DOMAIN TopNode(ruleSet, call).next
           grow(pathMatcher) ==
               LET RECURSIVE touch(_, _)
                   touch(pm, runes) ==
                       IF runes = <<>> THEN pm
                       ELSE [pm EXCEPT !.next = MapPut(@, runes[1],
                                touch(IF runes[1] \in DOMAIN pm.next
                                      THEN pm.next[runes[1]] ELSE EmptyPathMatcher,
                                      Tail(runes)))]
               IN touch(pathMatcher, key)
       IN /\ ruleSet' = IF found THEN ruleSet
                        ELSE [ruleSet EXCEPT ![call.which][index] = grow(@)]
          /\ calls' = [calls EXCEPT ![c] =
                 [AtStage(call, "inChild", 0) EXCEPT !.stack = Append(@, ChildFrame(top))]]
    /\ UNCHANGED <<mode, added, last>>

\* findNext looks up the child for the first character and calls findNext
\* on it
FindNextChild(c) ==
    /\ calls[c].pc = "run"
    /\ TopFrame(calls[c]).stage = "child"
    /\ Len(calls[c].stack) < MaxStack
    /\ LET call == calls[c]
           top == TopFrame(call)
       IN calls' = [calls EXCEPT ![c] =
              IF top.runes[1] \in DOMAIN TopNode(ruleSet, call).next
              THEN [AtStage(call, "inChild", 0) EXCEPT
                       !.stack = Append(@, ChildFrame(top))]
              ELSE AtStage(call, "star", 0)]
    /\ UNCHANGED <<mode, ruleSet, added, last>>

\* the wildcard loop of findNext: one more call on the * child, or the
\* final return false
FindNextWildcard(c) ==
    /\ calls[c].pc = "run"
    /\ TopFrame(calls[c]).stage = "star"
    /\ Len(calls[c].stack) < MaxStack
    /\ LET call == calls[c]
           top == TopFrame(call)
       IN calls' = [calls EXCEPT ![c] =
              IF "*" \in DOMAIN TopNode(ruleSet, call).next /\ top.i < Len(top.runes)
              THEN [AtStage(call, "inStar", top.i) EXCEPT
                       !.stack = Append(@, WildcardFrame(top)),
                       !.stars = @ \/ (top.node # <<>> /\ top.node[Len(top.node)] = "*")]
              ELSE FindNextReturns(call, FALSE)]
    /\ UNCHANGED <<mode, ruleSet, added, last>>

\* the caller takes the result of its call
AllowReturns(c) ==
    /\ calls[c].pc = "done"
    /\ calls' = [calls EXCEPT ![c] = IdleCall]
    /\ UNCHANGED <<mode, ruleSet, added, last>>

\* a step of a call in progress
RunStep(c) == FindNextRules(c) \/ FindNextChild(c) \/ FindNextWildcard(c)

NextServe ==
    \/ \E line \in Lines : ParseStep(line)
    \/ AddStep
    \/ Return
    \/ StartServing
    \/ \E c \in DOMAIN calls, req \in Requests : CallAllow(c, req)
    \/ \E c \in DOMAIN calls : FindNextRules(c)
    \/ \E c \in DOMAIN calls : FindNextChild(c)
    \/ \E c \in DOMAIN calls : FindNextWildcard(c)
    \/ \E c \in DOMAIN calls : AllowReturns(c)

\* a step of the call is possible: RunStep(c) is enabled
Runnable(c) ==
    /\ calls[c].pc = "run"
    /\ (TopFrame(calls[c]).stage = "rules" \/ Len(calls[c].stack) < MaxStack)

\* the call has moved: among the steps of NextServe only RunStep(c) changes
\* a call in progress
Moved(c) == calls[c].pc = "run" /\ calls'[c] # calls[c]

\* weak fairness of RunStep(c), written with the state predicate that
\* ENABLED <<RunStep(c)>>_vars equals: the goroutine of a call in progress
\* keeps being scheduled
FairRun(c) == []<>(~Runnable(c)) \/ []<><<Moved(c)>>_vars

\* one caller
InitFind == InitIn("find")

SpecFind == InitFind /\ [][NextServe]_vars /\ FairRun("c1")

\* two callers whose calls interleave
InitServe == InitIn("serve")

SpecServe == InitServe /\ [][NextServe]_vars

(***************************************************************************)
(* The claims                                                              *)
(***************************************************************************)

\* every rule stored somewhere in a trie
RECURSIVE TrieRules(_)
TrieRules(pathMatcher) ==
    Range(pathMatcher.rules)
    \cup UNION {TrieRules(pathMatcher.next[c]) : c \in DOMAIN pathMatcher.next}

StoredRules(matcher) ==
    TrieRules(matcher.addressPartMatcher) \cup TrieRules(matcher.domainNameMatcher)
    \cup TrieRules(matcher.exactAddressMatcher)

Unrestricted(rule) == DOMAIN rule.Domains = {} /\ DOMAIN rule.Options = {}

\* C1: after any sequence of AddRule calls the blacklist matcher holds only
\* non-exception rules and the whitelist matcher only exception rules, each
\* indexed rule in the matcher of its kind; Allow returns white.Match OR NOT
\* black.Match, so a request is blocked only when a blacklist rule accepts
\* it and the whitelist matcher does not match, and the empty RuleSet allows
\* every request.
C1_RoutingAndPolicy ==
    /\ \A r \in StoredRules(ruleSet.black) : ~r.IsException
    /\ \A r \in StoredRules(ruleSet.white) : r.IsException
    /\ \A i \in DOMAIN added :
          added[i].RuleType # RegexRule =>
             added[i] \in StoredRules(IF added[i].IsException
                                      THEN ruleSet.white ELSE ruleSet.black)
    /\ last.op = "allow" =>
          /\ last.result = (MatcherMatch(ruleSet.white, last.req)
                            \/ ~MatcherMatch(ruleSet.black, last.req))
          /\ ~last.result =>
                \E i \in DOMAIN added :
                    ~added[i].IsException /\ Accepts(added[i], last.req)
          /\ added = <<>> => last.result

\* C1 witness: a request the blacklist matcher matches is allowed because
\* the whitelist matcher matches it too
C1_Witness ==
    /\ last.op = "allow"
    /\ last.result
    /\ MatcherMatch(ruleSet.black, last.req)
    /\ MatcherMatch(ruleSet.white, last.req)

\* C2: ParseRule is total: every call returns a Rule or one of its error
\* values and never aborts, whatever the match text, one character included.
C2_ParseRuleTotal ==
    last.op = "parse" =>
        last.kind \in {"Rule", "EmptyLine", "CommentLine", "CosmeticRule",
                       "UnsupportedRule", "CompileError"}

\* the case of C3: Allow was asked about a request whose path contains the
\* text of the only rule, an unrestricted non-exception AddressPart rule
C3_Case ==
    /\ last.op = "allow"
    /\ Len(added) = 1
    /\ added[1].RuleType = AddressPart
    /\ ~added[1].IsException
    /\ Unrestricted(added[1])
    /\ Contains(last.req.URL.Path, added[1].RuleText)

C4_Case ==
    /\ last.op = "allow"
    /\ Len(added) = 1
    /\ added[1].RuleType = DomainName
    /\ ~added[1].IsException
    /\ Unrestricted(added[1])

\* C4: ||D^ blocks a request whose host name is D or ends with "." and D, and
\* does not block one whose host name ends with the characters of D without
\* a label boundary before them.
C4_DomainRuleBlocksSubdomains ==
    C4_Case =>
        LET d == BaseDomain(added[1])
            host == Hostname(last.req.URL)
        IN /\ (host = d \/ HasSuffix(host, <<".">> \o d)) => ~last.result
           /\ (host # d /\ HasSuffix(host, d) /\ ~HasSuffix(host, <<".">> \o d))
                 => last.result

\* the rule with its domain and option restrictions taken away
Bare(rule) == [rule EXCEPT !.Domains = EmptyMap, !.Options = EmptyMap]

\* the domains mapping of the rule agrees with the host name: for every
\* entry, (the lower-cased host name ends with the domain) = its polarity
DomainsAgree(rule, req) ==
    \A d \in DOMAIN rule.Domains :
        HasSuffix(ToLower(Hostname(req.URL)), d) = rule.Domains[d]

\* C5: a rule is accepted for a request only if every entry of its domains
\* mapping agrees with the lower-cased host name; so a request is blocked
\* only by a rule whose mapping agrees, and a rule alone in the RuleSet
\* never blocks a request to a host that ends with a domain it excludes.
C5_DomainGate ==
    last.op = "allow" =>
        /\ \A i \in DOMAIN added :
               Accepts(added[i], last.req) => DomainsAgree(added[i], last.req)
        /\ ~last.result =>
               \E i \in DOMAIN added :
                   ~added[i].IsException /\ DomainsAgree(added[i], last.req)
        /\ (Len(added) = 1 /\ ~DomainsAgree(added[1], last.req)) => last.result

\* C5 witness: the rule ad$domain=a.b|~c.a.b alone; its text matches the
\* request and the host ends with the included a.b, yet the request is
\* allowed because the host also ends with the excluded c.a.b
C5_Witness ==
    /\ last.op = "allow"
    /\ Len(added) = 1
    /\ ~added[1].IsException
    /\ \E d \in DOMAIN added[1].Domains :
           added[1].Domains[d] /\ HasSuffix(ToLower(Hostname(last.req.URL)), d)
    /\ \E d \in DOMAIN added[1].Domains :
           ~added[1].Domains[d] /\ HasSuffix(ToLower(Hostname(last.req.URL)), d)
    /\ ~Allow(AddRule(CreateRuleSet, Bare(added[1])), last.req)
    /\ last.result

\* the option gate as the extension of the path decides it: an extension
\* is a suffix of the lower-cased path with its trailing .gz taken away
OptionAgrees(option, active, req) ==
    LET lower == ToLower(req.URL.Path)
        path == IF HasSuffix(lower, GzSuffix)
                THEN SubSeq(lower, 1, Len(lower) - 3) ELSE lower
    IN (\E e \in ExtsOf(option) : HasSuffix(path, e)) = active

\* C6: the option gate passes for a rule with no option, and otherwise
\* exactly when one of its script, image, stylesheet and font options
\* agrees with the extension of the path; a $script rule alone blocks a
\* path ending in .js or .js.gz that its text matches, and no path ending
\* in .png.
C6_OptionGate ==
    last.op = "allow" =>
        /\ \A i \in DOMAIN added :
               LET options == added[i].Options
               IN matchOptions(added[i], last.req) =
                     \/ DOMAIN options = {}
                     \/ \E o \in DOMAIN options \cap {OptScript, OptImage, OptStylesheet, OptFont} :
                            OptionAgrees(o, options[o], last.req)
        /\ (/\ Len(added) = 1
            /\ ~added[1].IsException
            /\ DOMAIN added[1].Domains = {}
            /\ DOMAIN added[1].Options = {OptScript}
            /\ added[1].Options[OptScript])
           => LET lower == ToLower(last.req.URL.Path)
                  bare == Allow(AddRule(CreateRuleSet, Bare(added[1])), last.req)
              IN /\ (HasSuffix(lower, <<".","j","s">>) \/ HasSuffix(lower, <<".","j","s",".","g","z">>))
                       => last.result = bare
                 /\ HasSuffix(lower, <<".","p","n","g">>) => last.result

\* C6 witness: the rule ad$script alone blocks a path ending in .js.gz
C6_Witness ==
    /\ last.op = "allow"
    /\ Len(added) = 1
    /\ DOMAIN added[1].Options = {OptScript}
    /\ added[1].Options[OptScript]
    /\ HasSuffix(ToLower(last.req.URL.Path), <<".","j","s",".","g","z">>)
    /\ ~last.result

\* the index of the matcher that the rule type selects, a RegexRule being
\* filed with the address parts
IndexName(rule) ==
    CASE rule.RuleType = DomainName -> "domainNameMatcher"
      [] rule.RuleType = ExactAddress -> "exactAddressMatcher"
      [] OTHER -> "addressPartMatcher"

\* the key a rule is indexed under, up to its end or its first ^
IndexedKey(rule) ==
    LET key == CASE rule.RuleType = DomainName -> BaseDomain(rule)
                 [] rule.RuleType = ExactAddress ->
                      Slice(rule.RuleText, 1, Len(rule.RuleText) - 1)
                 [] OTHER -> rule.RuleText
        carets == {i \in DOMAIN key : key[i] = "^"}
    IN IF carets = {} THEN key
       ELSE SubSeq(key, 1, (CHOOSE i \in carets : \A j \in carets : i <= j) - 1)

\* the paths from the root to the nodes whose terminal rules hold the rule
RECURSIVE PathsHolding(_, _, _)
PathsHolding(pathMatcher, rule, prefix) ==
    (IF rule \in Range(pathMatcher.rules) THEN {prefix} ELSE {})
    \cup UNION {PathsHolding(pathMatcher.next[c], rule, Append(prefix, c)) :
                   c \in DOMAIN pathMatcher.next}

\* the rule is a terminal rule of exactly the node its indexed key leads to,
\* in the index of its type of its own matcher, and of no other node
IndexedOnce(rule) ==
    LET own == IF rule.IsException THEN ruleSet.white ELSE ruleSet.black
        other == IF rule.IsException THEN ruleSet.black ELSE ruleSet.white
    IN /\ PathsHolding(own[IndexName(rule)], rule, <<>>) = {IndexedKey(rule)}
       /\ \A name \in DOMAIN own \ {IndexName(rule)} : rule \notin TrieRules(own[name])
       /\ rule \notin StoredRules(other)

\* C7: after any sequence of AddRule calls every added rule, of every rule
\* type, is a terminal rule of exactly one node of exactly one index of its
\* matcher: the node its indexed key leads to in the index of its type, a
\* RegexRule in the address-part index under its literal text.
C7_EveryRuleIndexedOnce ==
    \A i \in DOMAIN added : IndexedOnce(added[i])

\* the RuleSet that the calls of AddRule with the rules of the sequence, in
\* order, build
RECURSIVE Replay(_)
Replay(rules) ==
    IF rules = <<>> THEN CreateRuleSet
    ELSE AddRule(Replay(SubSeq(rules, 1, Len(rules) - 1)), rules[Len(rules)])

\* the last call was an AddRule with a rule that had been added before
C8_Case ==
    /\ last.op = "add"
    /\ Len(added) >= 2
    /\ added[Len(added)] \in Range(SubSeq(added, 1, Len(added) - 1))

\* C8: adding a rule once more is not observable: after an AddRule with a
\* rule added before, Allow returns for every request what it returned
\* before that call.
C8_DuplicateAddUnobservable ==
    C8_Case =>
        \A q \in Requests :
            Allow(ruleSet, q) = Allow(Replay(SubSeq(added, 1, Len(added) - 1)), q)

\* C8 witness: a rule was added a second time and it blocks some request
C8_Witness ==
    /\ C8_Case
    /\ \E q \in Requests : ~Allow(ruleSet, q)

\* C9: once the rules are loaded, no step of Allow writes to the RuleSet,
\* which stays what the AddRule calls built, and every call that
\* interleaves with another returns what Allow returns when run alone.
C9_ConcurrentAllow ==
    last.op = "serve" =>
        /\ ruleSet = Replay(added)
        /\ \A c \in DOMAIN calls :
               calls[c].pc = "done" =>
                   calls[c].result = Allow(Replay(added), calls[c].req)

\* C9 witness: one call has returned that the request is blocked while
\* another call is inside a findNext below the root of an index
C9_Witness ==
    /\ mode = "serve"
    /\ calls["c1"].pc = "done"
    /\ ~calls["c1"].result
    /\ calls["c2"].pc = "run"
    /\ Len(calls["c2"].stack) > 1

\* C10: every call of Allow on a RuleSet built by AddRule from parsed rules
\* ends and returns a boolean, keys with consecutive * included; the
\* nesting of findNext never reaches the depth where the model stops.
C10_AllowTerminates ==
    /\ [](\A c \in DOMAIN calls : Len(calls[c].stack) < MaxStack)
    /\ \A c \in CallersOf("find") :
          (mode = "find" /\ calls[c].pc = "run")
              ~> (calls[c].pc = "done" /\ calls[c].result \in BOOLEAN)

\* C10 witness: a call has returned after its wildcard loop called findNext
\* on the * child of a * node
C10_Witness ==
    /\ mode = "find"
    /\ calls["c1"].pc = "done"
    /\ calls["c1"].stars
    /\ ~calls["c1"].result

\* the request with its host name written in lower case
LowerHost(req) == [req EXCEPT !.URL.Host = ToLower(@)]

\* C11: whether a DomainName rule matches does not depend on the letter
\* case of the request's host name: with an unrestricted non-exception
\* rule ||D^ alone, Allow returns for a request what it returns for the
\* same request with the host name in lower case.
C11_HostCaseIrrelevant ==
    C4_Case => last.result = Allow(ruleSet, LowerHost(last.req))

\* s is the pattern with each * replaced by some string, the empty one
\* included
RECURSIVE GlobEquals(_, _)
GlobEquals(pattern, s) ==
    IF pattern = <<>> THEN s = <<>>
    ELSE IF pattern[1] = "*"
    THEN \E k \in 0..Len(s) : GlobEquals(Tail(pattern), SubSeq(s, k + 1, Len(s)))
    ELSE s # <<>> /\ s[1] = pattern[1] /\ GlobEquals(Tail(pattern), Tail(s))

\* some substring of s is the pattern with each * replaced by a string
GlobInside(pattern, s) ==
    \E i \in 1..(Len(s) + 1) : \E j \in (i - 1)..Len(s) :
        GlobEquals(pattern, SubSeq(s, i, j))

\* the case of C12: Allow was asked about a request and the only rule is an
\* unrestricted non-exception AddressPart rule whose text has a * and
\* neither | nor ^, and some substring of the path is the text with each *
\* replaced by a string
C12_Case ==
    /\ last.op = "allow"
    /\ Len(added) = 1
    /\ added[1].RuleType = AddressPart
    /\ ~added[1].IsException
    /\ Unrestricted(added[1])
    /\ "*" \in Range(added[1].RuleText)
    /\ "|" \notin Range(added[1].RuleText)
    /\ "^" \notin Range(added[1].RuleText)
    /\ GlobInside(added[1].RuleText, last.req.URL.Path)

\* C12: a * of the rule text stands for zero or more characters of the
\* path wherever it is in the text, the end of the text with nothing left
\* of the path included: the rule blocks every such request.
C12_WildcardBlocks == C12_Case => ~last.result

\* the strings the compiled pattern of C13 is run on
C13_Strings == StringsUpTo(TextAlphabet \ {"^", "*"}, MaxTextLen)

\* the case of C13: ParseRule returned a rule whose text has a | that is
\* neither its first nor its last character, and no ^ and no *, and that is
\* not a regular expression between slashes
C13_Case ==
    /\ last.op = "parse"
    /\ last.kind = "Rule"
    /\ last.rule.RuleType = AddressPart
    /\ LET text == last.rule.RuleText
       IN /\ \E i \in 2..(Len(text) - 1) : text[i] = "|"
          /\ text[1] # "|"
          /\ text[Len(text)] # "|"
          /\ "^" \notin Range(text)
          /\ "*" \notin Range(text)

\* C13: a | in the middle of the rule text is compiled to a literal | and
\* nothing else changes: the pattern matches exactly the strings that
\* contain the whole text (letter case aside unless match-case is given),
\* the character after the | included.
C13_PipeLiteral ==
    C13_Case =>
        \A s \in C13_Strings :
            MatchString(last.rule.Regex, s) =
                IF OptMatchCase \in DOMAIN last.rule.Options
                THEN Contains(s, last.rule.RuleText)
                ELSE Contains(ToLower(s), ToLower(last.rule.RuleText))

\* the rule has recorded options and all of them are among third-party,
\* xmlhttprequest and match-case
OnlyInertOptions(rule) ==
    /\ DOMAIN rule.Options # {}
    /\ DOMAIN rule.Options \subseteq {OptThirdParty, OptXHR, OptMatchCase}

\* C14: a rule whose recorded options are all among third-party,
\* xmlhttprequest and match-case is accepted for no request, and the
\* AddRule call that adds it changes no result of Allow.
C14_InertOptions ==
    /\ last.op = "allow" =>
          \A i \in DOMAIN added :
              OnlyInertOptions(added[i]) => ~Accepts(added[i], last.req)
    /\ (last.op = "add" /\ OnlyInertOptions(added[Len(added)])) =>
          \A q \in Requests :
              Allow(ruleSet, q) = Allow(Replay(SubSeq(added, 1, Len(added) - 1)), q)

\* C14 witness: a non-exception rule with only such options is alone in
\* the RuleSet; without its options it would block the request, which is
\* allowed
C14_Witness ==
    /\ last.op = "allow"
    /\ Len(added) = 1
    /\ ~added[1].IsException
    /\ OnlyInertOptions(added[1])
    /\ ~Allow(AddRule(CreateRuleSet, Bare(added[1])), last.req)
    /\ last.result
====
